---- MODULE Spec2Model ----
(***************************************************************************)
(* A model of the bpf crate: the Op/Prog data model and its construction   *)
(* (Prog::new, bpfprog!), the three socket-option calls attach_filter,     *)
(* detach_filter and lock_filter, the BpfFilterAttachable forwarding       *)
(* methods, and the dummy (non-Linux) variant of all of them.              *)
(*                                                                         *)
(* The kernel behind setsockopt(2) is not part of the crate.  It is an     *)
(* environment, modelled from the contract the specification states for    *)
(* it (sections 3, 4.2, 6 and 8): see KernelSetsockopt.                    *)
(***************************************************************************)
EXTENDS Integers, Sequences, FiniteSets, TLC

(***************************************************************************)
(* Bounds of the model.                                                    *)
(***************************************************************************)
\* the longest explicitly enumerated operation list
MaxHead == 1
\* heap addresses available to the allocator
MaxAddr == 2
\* the largest count hint given to bpfprog!
MaxHint == 1
\* the largest spare capacity (capacity - length) of a Vec given to Prog::new
MaxSpare == 1

(***************************************************************************)
(* Program constants.                                                      *)
(***************************************************************************)
SO_ATTACH_FILTER == 26
SO_DETACH_FILTER == 27
SO_LOCK_FILTER == 44
\* libc::SOL_SOCKET on Linux
SOL_SOCKET == 1
\* the width of c_ushort, the type of Prog.len
USHORT_BITS == 16
\* size_of::<u16>() and size_of::<c_int>()
SIZEOF_U16 == 2
SIZEOF_INT == 4
\* the value lock_filter passes
LOCK_ONE == 1
\* the operation code of a classic BPF return instruction (the doc examples)
BPF_RET == 6
\* the operation code of "ldh [k]" (the doc examples)
BPF_LDH == 40
\* the kernel's limit on the length of a classic filter program
BPF_MAXINSNS == 4096
\* the smallest non-zero capacity Vec<Op> grows to
MIN_NON_ZERO_CAP == 4

USHORT_MOD == 2 ^ USHORT_BITS

Threads == {1, 2}
\* the open sockets of the process, each known by its own descriptor
OpenFds == {3, 4}
\* a descriptor that designates no open socket
BadFd == -1
Fds == OpenFds \cup {BadFd}
\* values implementing AsRawFd
Sockets == {"udp", "tcp"}
\* the pointer widths of the targets the crate builds for (bytes)
PtrWidths == {4, 8}

Max(a, b) == IF a >= b THEN a ELSE b

(***************************************************************************)
(* Op: the four fields of one instruction.                                 *)
(***************************************************************************)
Op_new(code, jt, jf, k) == [code |-> code, jt |-> jt, jf |-> jf, k |-> k]

\* "ret #1" and "ldh [12]", the instructions of the crate's examples
OpSet == {Op_new(BPF_RET, 0, 0, 1), Op_new(BPF_LDH, 0, 0, 12)}

\* the instruction a long list is filled with
PadOp == Op_new(BPF_RET, 0, 0, 1)

(***************************************************************************)
(* An operation list is `head` followed by `pad` copies of PadOp, so that  *)
(* lists longer than a c_ushort can count are values of the model.         *)
(***************************************************************************)
Heads == UNION {[1..n -> OpSet] : n \in 0..MaxHead}
Pads == {0, USHORT_MOD - 1, USHORT_MOD}
OpLists == [head : Heads, pad : Pads]
NoOps == [head |-> <<>>, pad |-> 0]

OpsLen(l) == Len(l.head) + l.pad

\* the i-th operation of a list (1-based)
OpsAt(l, i) == IF i <= Len(l.head) THEN l.head[i] ELSE PadOp

\* the first n operations of a list
OpsTake(l, n) ==
    IF n <= Len(l.head)
    THEN [head |-> SubSeq(l.head, 1, n), pad |-> 0]
    ELSE [head |-> l.head, pad |-> n - Len(l.head)]

(***************************************************************************)
(* Memory.  Addresses 1..MaxAddr are the allocator's; DANGLING is the      *)
(* well-aligned non-null address of an empty slice, which owns no storage. *)
(***************************************************************************)
Addrs == 1..MaxAddr
DANGLING == 0


(***************************************************************************)
(* Vec<Op>: its operations, its capacity and the address of its buffer.    *)
(* A Vec of capacity 0 owns no buffer.                                     *)
(***************************************************************************)
Vec_with_capacity(count) == [ops |-> NoOps, cap |-> count, addr |-> DANGLING]

\* push: a full Vec grows to max(2 * cap, len + 1, MIN_NON_ZERO_CAP)
Vec_push(v, op) ==
    [ops |-> [head |-> Append(v.ops.head, op), pad |-> v.ops.pad],
     cap |-> IF OpsLen(v.ops) = v.cap
             THEN Max(Max(2 * v.cap, OpsLen(v.ops) + 1), MIN_NON_ZERO_CAP)
             ELSE v.cap,
     addr |-> v.addr]

RECURSIVE Vec_push_all(_, _)
Vec_push_all(v, tuples) ==
    IF tuples = <<>>
    THEN v
    ELSE Vec_push_all(Vec_push(v, Op_new(Head(tuples).code, Head(tuples).jt,
                                         Head(tuples).jf, Head(tuples).k)),
                      Tail(tuples))

\* the buffer of a Vec lives at `addr` when it has one
Vec_at(v, addr) == [v EXCEPT !.addr = IF v.cap = 0 THEN DANGLING ELSE addr]

(***************************************************************************)
(* Vec::into_boxed_slice: a Vec with spare capacity is shrunk to fit,      *)
(* which reallocates (the allocator answers with naddr, the same block or  *)
(* another one) and, for an empty Vec, releases the buffer altogether.     *)
(* The boxed slice is [addr, n]; its contents are in the heap.             *)
(***************************************************************************)
into_boxed_slice(v, naddr) ==
    [addr |-> IF OpsLen(v.ops) = 0 THEN DANGLING
              ELSE IF OpsLen(v.ops) = v.cap THEN v.addr
              ELSE naddr,
     n |-> OpsLen(v.ops)]

as_mut_ptr(box) == box.addr

\* a narrowing "as" cast to c_ushort keeps the low 16 bits
as_c_ushort(n) == n % USHORT_MOD

\* a plausible slip: the pointer is taken from the Vec, before it is boxed
Prog_new_stale_ptr(v, naddr) ==
    LET ops == into_boxed_slice(v, naddr)
    IN [len |-> as_c_ushort(ops.n), filter |-> v.addr, _ops |-> ops]

(***************************************************************************)
(* Prog::new: box the operations, then record length and pointer.          *)
(***************************************************************************)
Prog_new(v, naddr) ==
    LET ops == into_boxed_slice(v, naddr)
        len == ops.n
        ptr == as_mut_ptr(ops)
    IN [len |-> as_c_ushort(len), filter |-> ptr, _ops |-> ops]

\* the Vec bpfprog!(count, tuples...) hands to Prog::new
bpfprog_vec(count, tuples) == Vec_push_all(Vec_with_capacity(count), tuples)

(***************************************************************************)
(* repr(C) layout: each field at the next multiple of its alignment, the   *)
(* size rounded up to the largest alignment.  A field is [size, align].    *)
(***************************************************************************)
AlignUp(n, a) == ((n + a - 1) \div a) * a

RECURSIVE ReprC_End(_, _)
ReprC_End(fields, off) ==
    IF fields = <<>>
    THEN off
    ELSE ReprC_End(Tail(fields), AlignUp(off, Head(fields).align) + Head(fields).size)

RECURSIVE ReprC_Align(_)
ReprC_Align(fields) ==
    IF fields = <<>> THEN 1 ELSE Max(Head(fields).align, ReprC_Align(Tail(fields)))

ReprC_Size(fields) == AlignUp(ReprC_End(fields, 0), ReprC_Align(fields))

\* the offset of the i-th field
ReprC_Offset(fields, i) ==
    AlignUp(ReprC_End(SubSeq(fields, 1, i - 1), 0), fields[i].align)

FieldU16 == [size |-> SIZEOF_U16, align |-> SIZEOF_U16]
FieldPtr(w) == [size |-> w, align |-> w]
\* Option<Box<[Op]>>: a data pointer and a length, None being the null pointer
FieldBoxedSlice(w) == [size |-> 2 * w, align |-> w]

\* struct Prog as compiled (the _ops field is left out of rustdoc builds only)
ProgFields(w) == <<FieldU16, FieldPtr(w), FieldBoxedSlice(w)>>

\* size_of_val(&prog)
size_of_Prog(w) == ReprC_Size(ProgFields(w))

\* the kernel's struct sock_fprog { unsigned short len; struct sock_filter *filter; }
SockFprogFields(w) == <<FieldU16, FieldPtr(w)>>
size_of_sock_fprog(w) == ReprC_Size(SockFprogFields(w))

(***************************************************************************)
(* Results: Ok(()) and Err(Error::from_raw_os_error(code)).                *)
(***************************************************************************)
Ok == [ok |-> TRUE, code |-> "none"]
Err(code) == [ok |-> FALSE, code |-> code]
NoResult == [ok |-> FALSE, code |-> "pending"]


(***************************************************************************)
(* The public surface of each variant: the items a caller can name, with   *)
(* their parameter types.  lib.rs re-exports one module or the other and   *)
(* adds the BpfFilterAttachable methods to both.                           *)
(***************************************************************************)
Item(name, params) == [name |-> name, params |-> params]

ItemOpNew == Item("Op::new", <<"u16", "u8", "u8", "u32">>)
ItemProgNew == Item("Prog::new", <<"Vec<Op>">>)
ItemBpfprog == Item("bpfprog!", <<"count", "code jt jf k ...">>)
ItemAttach == Item("attach_filter", <<"RawFd", "Prog">>)
ItemDetach == Item("detach_filter", <<"RawFd">>)
ItemLock == Item("lock_filter", <<"RawFd">>)

bpf_linux_exports ==
    {ItemOpNew, ItemProgNew, ItemBpfprog, ItemAttach, ItemDetach, ItemLock}

bpf_dummy_exports ==
    {ItemOpNew, ItemBpfprog, ItemAttach, ItemDetach, ItemLock}

BpfFilterAttachable_methods ==
    {Item("BpfFilterAttachable::attach_filter", <<"&self", "Prog">>),
     Item("BpfFilterAttachable::detach_filter", <<"&self">>),
     Item("BpfFilterAttachable::lock_filter", <<"&self">>)}

\* cfg(target_os = "linux") selects the module at build time
Surface(v) ==
    (IF v = "linux" THEN bpf_linux_exports ELSE bpf_dummy_exports)
        \cup BpfFilterAttachable_methods

Fns == {"attach_filter", "detach_filter", "lock_filter"}

FnItem(f) ==
    CASE f = "attach_filter" -> ItemAttach
      [] f = "detach_filter" -> ItemDetach
      [] OTHER -> ItemLock

MethodItem(f) ==
    CHOOSE i \in BpfFilterAttachable_methods :
        i.name = "BpfFilterAttachable::" \o f

(***************************************************************************)
(* AsRawFd and the forwarding methods of BpfFilterAttachable: each calls   *)
(* the free function of the same name on self.as_raw_fd().                 *)
(***************************************************************************)
as_raw_fd(s) == IF s = "udp" THEN 3 ELSE 4

Trait_attach_filter(s) == [fn |-> "attach_filter", fd |-> as_raw_fd(s)]

Trait_detach_filter(s) == [fn |-> "detach_filter", fd |-> as_raw_fd(s)]

Trait_lock_filter(s) == [fn |-> "lock_filter", fd |-> as_raw_fd(s)]

TraitForward(m, s) ==
    CASE m = "attach_filter" -> Trait_attach_filter(s)
      [] m = "detach_filter" -> Trait_detach_filter(s)
      [] OTHER -> Trait_lock_filter(s)

\* what a caller can ask for: a free function on a descriptor, or a method on
\* a socket value; `fn` and `fd` are the free function that runs and its fd
FnRequests(fds) ==
    {[via |-> "fn", item |-> f, self |-> "none", fn |-> f, fd |-> d] :
        f \in Fns, d \in fds}

TraitRequests(socks) ==
    {[via |-> "trait", item |-> m, self |-> s,
      fn |-> TraitForward(m, s).fn, fd |-> TraitForward(m, s).fd] :
        m \in Fns, s \in socks}

RequestItem(r) == IF r.via = "fn" THEN FnItem(r.item) ELSE MethodItem(r.item)

(***************************************************************************)
(* The arguments of the one setsockopt call each function makes.           *)
(* optval describes the memory the pointer designates.                     *)
(***************************************************************************)
attach_filter_args(fd, prog, w) ==
    [fd |-> fd, level |-> SOL_SOCKET, optname |-> SO_ATTACH_FILTER,
     optval |-> [kind |-> "Prog", len |-> prog.len, filter |-> prog.filter, val |-> 0],
     optlen |-> size_of_Prog(w)]

detach_filter_args(fd) ==
    [fd |-> fd, level |-> SOL_SOCKET, optname |-> SO_DETACH_FILTER,
     optval |-> [kind |-> "null", len |-> 0, filter |-> DANGLING, val |-> 0],
     optlen |-> 0]

\* a plausible slip: the wrong option name
lock_filter_args_detach(fd) ==
    [fd |-> fd, level |-> SOL_SOCKET, optname |-> SO_DETACH_FILTER,
     optval |-> [kind |-> "c_int", len |-> 0, filter |-> DANGLING, val |-> LOCK_ONE],
     optlen |-> SIZEOF_INT]

\* a plausible slip: a fixed descriptor instead of the one passed in
lock_filter_args_fixed_fd(fd) ==
    [fd |-> 3, level |-> SOL_SOCKET, optname |-> SO_LOCK_FILTER,
     optval |-> [kind |-> "c_int", len |-> 0, filter |-> DANGLING, val |-> LOCK_ONE],
     optlen |-> SIZEOF_INT]

lock_filter_args(fd) ==
    [fd |-> fd, level |-> SOL_SOCKET, optname |-> SO_LOCK_FILTER,
     optval |-> [kind |-> "c_int", len |-> 0, filter |-> DANGLING, val |-> LOCK_ONE],
     optlen |-> SIZEOF_INT]

\* a plausible slip: the failure of the call is swallowed
io_result_swallow(ret, last_os_error) == Ok

\* if ret == 0 { Ok(()) } else { Err(Error::last_os_error()) }
io_result(ret, last_os_error) == IF ret = 0 THEN Ok ELSE Err(last_os_error)

(***************************************************************************)
(* The dummy variant: the three functions ignore their arguments.          *)
(***************************************************************************)
\* a plausible slip: the stand-in reports the facility as unsupported
dummy_attach_filter_unsupported(fd, prog) == Err("ENOSYS")

dummy_attach_filter(fd, prog) == Ok

dummy_detach_filter(fd) == Ok

dummy_lock_filter(fd) == Ok


(***************************************************************************)
(* The heap: each address is free or holds the operations of one boxed     *)
(* slice.                                                                  *)
(***************************************************************************)
FreeBlock == [live |-> FALSE, ops |-> NoOps]

FreeAddrs(h) == {a \in Addrs : ~h[a].live}

\* the boxed slice comes to own its block (an empty slice owns none)
heap_store(h, box, ops) ==
    IF box.n = 0 THEN h ELSE [h EXCEPT ![box.addr] = [live |-> TRUE, ops |-> ops]]

\* dropping Box<[Op]> releases its block
heap_drop(h, box) ==
    IF box.n = 0 THEN h ELSE [h EXCEPT ![box.addr] = FreeBlock]

\* a release of a block that is not allocated
IsBadFree(h, box) == box.n > 0 /\ ~h[box.addr].live

(***************************************************************************)
(* The kernel's side of setsockopt(fd, level, optname, optval, optlen), as *)
(* the specification describes it: attach installs the filter-program      *)
(* record it is handed, detach removes the filter (also when there is      *)
(* none), lock forbids both from then on, a descriptor that is no open     *)
(* socket fails, and only the kernel judges the program.  The state of a   *)
(* socket is [filter, locked]; the answer is [ret, err, sock].             *)
(***************************************************************************)
NoFilter == [attached |-> FALSE, ops |-> NoOps]

KernelFail(s, e) == [ret |-> -1, err |-> e, sock |-> s]

KernelDone(s) == [ret |-> 0, err |-> "none", sock |-> s]

\* the kernel can copy optval.len operations from optval.filter
KernelCanRead(h, optval) ==
    /\ optval.filter \in Addrs
    /\ h[optval.filter].live
    /\ OpsLen(h[optval.filter].ops) >= optval.len

\* the kernel's check of a classic program: 1..BPF_MAXINSNS instructions, the
\* last one a return
KernelAccepts(ops) ==
    /\ OpsLen(ops) >= 1
    /\ OpsLen(ops) <= BPF_MAXINSNS
    /\ OpsAt(ops, OpsLen(ops)).code = BPF_RET

KernelAttach(s, h, a, w) ==
    IF a.optlen # size_of_sock_fprog(w) THEN KernelFail(s, "EINVAL")
    ELSE IF s[a.fd].locked THEN KernelFail(s, "EPERM")
    ELSE IF a.optval.len = 0 \/ a.optval.len > BPF_MAXINSNS THEN KernelFail(s, "EINVAL")
    ELSE IF ~KernelCanRead(h, a.optval) THEN KernelFail(s, "EFAULT")
    ELSE IF ~KernelAccepts(OpsTake(h[a.optval.filter].ops, a.optval.len))
         THEN KernelFail(s, "EINVAL")
    ELSE KernelDone([s EXCEPT ![a.fd].filter =
             [attached |-> TRUE,
              ops |-> OpsTake(h[a.optval.filter].ops, a.optval.len)]])

KernelDetach(s, a) ==
    IF s[a.fd].locked THEN KernelFail(s, "EPERM")
    ELSE KernelDone([s EXCEPT ![a.fd].filter = NoFilter])

KernelLock(s, a) ==
    IF a.optlen < SIZEOF_INT THEN KernelFail(s, "EINVAL")
    ELSE IF s[a.fd].locked /\ a.optval.val = 0 THEN KernelFail(s, "EPERM")
    ELSE KernelDone([s EXCEPT ![a.fd].locked = (a.optval.val # 0)])

KernelSetsockopt(s, h, a, w) ==
    IF a.fd \notin OpenFds THEN KernelFail(s, "EBADF")
    ELSE IF a.level # SOL_SOCKET THEN KernelFail(s, "ENOPROTOOPT")
    ELSE IF a.optname = SO_ATTACH_FILTER THEN KernelAttach(s, h, a, w)
    ELSE IF a.optname = SO_DETACH_FILTER THEN KernelDetach(s, a)
    ELSE IF a.optname = SO_LOCK_FILTER THEN KernelLock(s, a)
    ELSE KernelFail(s, "ENOPROTOOPT")

(***************************************************************************)
(* State.                                                                  *)
(***************************************************************************)
VARIABLES
    variant,     \* the module the build selected: "linux" or "dummy"
    callers,     \* the threads of the process that use the crate
    ptrw,        \* the pointer width of the target, in bytes
    heap,        \* the process heap
    sock,        \* the kernel's filter state of each open socket
    pc,          \* where each thread is: idle, entered, sysret, done
    hand,        \* the Prog a thread has built and not yet given away
    frame,       \* the call a thread is in, or the last one it finished
    errno,       \* each thread's last OS error
    lockedOnce,  \* descriptors on which a lock_filter call has returned Ok
    doubleFree   \* some block was released while not allocated

vars == <<variant, callers, ptrw, heap, sock, pc, hand, frame, errno, lockedOnce, doubleFree>>

NoItem == Item("none", <<>>)

NoProgVal == [len |-> 0, filter |-> DANGLING, _ops |-> [addr |-> DANGLING, n |-> 0]]

NoHand == [kind |-> "none", how |-> NoItem, prog |-> NoProgVal, given |-> NoOps]

NoArgs ==
    [fd |-> BadFd, level |-> 0, optname |-> 0,
     optval |-> [kind |-> "none", len |-> 0, filter |-> DANGLING, val |-> 0],
     optlen |-> 0]

NoFrame ==
    [via |-> "none", item |-> "none", self |-> "none", fn |-> "none", fd |-> BadFd,
     prog |-> NoProgVal, given |-> NoOps, owns |-> FALSE,
     args |-> NoArgs, ret |-> 0, kerr |-> "none",
     nsys |-> 0, result |-> NoResult, lockedAtEntry |-> FALSE, afterAttach |-> FALSE]

SockInit == [d \in OpenFds |-> [filter |-> NoFilter, locked |-> FALSE]]

\* what the callers supply.  One thread alone uses every operation list, hint,
\* descriptor and socket value of the bounds.  Several threads each work on a
\* socket of their own (thread 1 on "udp", descriptor 3; thread 2 on "tcp",
\* descriptor 4) with the examples' "ret #1" program.
Solo == Cardinality(callers) = 1

CallerOps ==
    IF Solo THEN OpLists ELSE {[head |-> <<Op_new(BPF_RET, 0, 0, 1)>>, pad |-> 0]}

CallerFds(t) == IF Solo THEN Fds ELSE {2 + t}

CallerSockets(t) == IF Solo THEN Sockets ELSE {IF t = 1 THEN "udp" ELSE "tcp"}

CallerHeads == {l.head : l \in {m \in CallerOps : m.pad = 0}}

CallerHints == IF Solo THEN 0..MaxHint ELSE {1}

CallerSpares == IF Solo THEN 0..MaxSpare ELSE {0}

InitWith(cs, ws) ==
    /\ variant \in {"linux", "dummy"}
    /\ callers = cs
    /\ ptrw \in ws
    /\ heap = [a \in Addrs |-> FreeBlock]
    /\ sock = SockInit
    /\ pc = [t \in Threads |-> "idle"]
    /\ hand = [t \in Threads |-> NoHand]
    /\ frame = [t \in Threads |-> NoFrame]
    /\ errno = [t \in Threads |-> "none"]
    /\ lockedOnce = [d \in Fds |-> FALSE]
    /\ doubleFree = FALSE

\* one caller thread, on every target
Init == InitWith({1}, PtrWidths)

\* every thread calls, on the 64-bit target
InitMT == InitWith(Threads, {8})

AtRest(t) == t \in callers /\ pc[t] \in {"idle", "done"}


(***************************************************************************)
(* Building and dropping a Prog.                                           *)
(***************************************************************************)
\* the caller holds Prog p, built through item `how` from operations `ops`
Built(t, how, p, ops) ==
    /\ hand' = [hand EXCEPT ![t] =
                  [kind |-> "linux", how |-> how, prog |-> p, given |-> ops]]
    /\ heap' = heap_store(heap, p._ops, ops)
    /\ UNCHANGED <<variant, callers, ptrw, sock, pc, frame, errno, lockedOnce, doubleFree>>

\* Prog::new(ops) on a Vec the caller filled: any list, any spare capacity
ProgNew(t) ==
    /\ ItemProgNew \in Surface(variant)
    /\ AtRest(t)
    /\ hand[t].kind = "none"
    /\ \E ops \in CallerOps, spare \in CallerSpares :
         \E vaddr \in FreeAddrs(heap), naddr \in FreeAddrs(heap) :
            LET v == Vec_at([ops |-> ops, cap |-> OpsLen(ops) + spare,
                             addr |-> DANGLING], vaddr)
            IN Built(t, ItemProgNew, Prog_new(v, naddr), ops)

\* bpfprog!(count, tuples...) of the Linux module
Bpfprog(t) ==
    /\ variant = "linux"
    /\ ItemBpfprog \in Surface(variant)
    /\ AtRest(t)
    /\ hand[t].kind = "none"
    /\ \E count \in CallerHints, tuples \in CallerHeads :
         \E vaddr \in FreeAddrs(heap), naddr \in FreeAddrs(heap) :
            LET v == Vec_at(bpfprog_vec(count, tuples), vaddr)
            IN Built(t, ItemBpfprog, Prog_new(v, naddr), v.ops)

\* bpfprog!(count, tuples...) of the dummy module: Prog::default()
DummyBpfprog(t) ==
    /\ variant = "dummy"
    /\ ItemBpfprog \in Surface(variant)
    /\ AtRest(t)
    /\ hand[t].kind = "none"
    /\ \E count \in CallerHints, tuples \in CallerHeads :
         hand' = [hand EXCEPT ![t] =
                    [kind |-> "dummy", how |-> ItemBpfprog, prog |-> NoProgVal,
                     given |-> [head |-> tuples, pad |-> 0]]]
    /\ UNCHANGED <<variant, callers, ptrw, heap, sock, pc, frame, errno, lockedOnce, doubleFree>>

\* the caller lets a Prog go out of scope without attaching it
DropProg(t) ==
    /\ AtRest(t)
    /\ hand[t].kind # "none"
    /\ hand' = [hand EXCEPT ![t] = NoHand]
    /\ heap' = heap_drop(heap, hand[t].prog._ops)
    /\ doubleFree' = (doubleFree \/ IsBadFree(heap, hand[t].prog._ops))
    /\ UNCHANGED <<variant, callers, ptrw, sock, pc, frame, errno, lockedOnce>>

(***************************************************************************)
(* Entering a call.  attach_filter takes the Prog by value.                *)
(***************************************************************************)
NewFrame(t, r) ==
    [NoFrame EXCEPT
        !.via = r.via, !.item = r.item, !.self = r.self, !.fn = r.fn, !.fd = r.fd,
        !.prog = IF r.fn = "attach_filter" THEN hand[t].prog ELSE NoProgVal,
        !.given = IF r.fn = "attach_filter" THEN hand[t].given ELSE NoOps,
        !.owns = (r.fn = "attach_filter"),
        !.lockedAtEntry = lockedOnce[r.fd],
        !.afterAttach = (/\ pc[t] = "done"
                         /\ frame[t].fn = "attach_filter"
                         /\ frame[t].fd = r.fd
                         /\ frame[t].result.ok)]

CanCall(t, r) ==
    /\ RequestItem(r) \in Surface(variant)
    /\ AtRest(t)
    /\ r.fn = "attach_filter" => hand[t].kind = variant

Enter(t, r) ==
    /\ CanCall(t, r)
    /\ frame' = [frame EXCEPT ![t] = NewFrame(t, r)]
    /\ hand' = [hand EXCEPT ![t] = IF r.fn = "attach_filter" THEN NoHand ELSE @]
    /\ pc' = [pc EXCEPT ![t] = "entered"]
    /\ UNCHANGED <<variant, callers, ptrw, heap, sock, errno, lockedOnce, doubleFree>>

\* a direct call of attach_filter, detach_filter or lock_filter
FnCall(t) ==
    /\ variant = "linux"
    /\ \E r \in FnRequests(CallerFds(t)) : Enter(t, r)

\* a call of a BpfFilterAttachable method, which forwards to the free function
TraitCall(t) ==
    /\ variant = "linux"
    /\ \E r \in TraitRequests(CallerSockets(t)) : Enter(t, r)

(***************************************************************************)
(* The setsockopt call of each function, and its return.                   *)
(***************************************************************************)
Syscall(t, a) ==
    LET out == KernelSetsockopt(sock, heap, a, ptrw)
    IN /\ sock' = out.sock
       /\ errno' = [errno EXCEPT ![t] = IF out.ret # 0 THEN out.err ELSE @]
       /\ frame' = [frame EXCEPT ![t].ret = out.ret, ![t].kerr = out.err,
                                 ![t].nsys = @ + 1, ![t].args = a]
       /\ pc' = [pc EXCEPT ![t] = "sysret"]
       /\ UNCHANGED <<variant, callers, ptrw, heap, hand, lockedOnce, doubleFree>>

attach_filter_setsockopt(t) ==
    /\ pc[t] = "entered"
    /\ frame[t].fn = "attach_filter"
    /\ Syscall(t, attach_filter_args(frame[t].fd, frame[t].prog, ptrw))

detach_filter_setsockopt(t) ==
    /\ pc[t] = "entered"
    /\ frame[t].fn = "detach_filter"
    /\ Syscall(t, detach_filter_args(frame[t].fd))

lock_filter_setsockopt(t) ==
    /\ pc[t] = "entered"
    /\ frame[t].fn = "lock_filter"
    /\ Syscall(t, lock_filter_args(frame[t].fd))

\* the result is built from ret and the thread's errno; then prog is dropped
attach_filter_return(t) ==
    /\ pc[t] = "sysret"
    /\ frame[t].fn = "attach_filter"
    /\ frame' = [frame EXCEPT ![t].result = io_result(frame[t].ret, errno[t]),
                              ![t].prog = NoProgVal,
                              ![t].owns = FALSE]
    /\ heap' = heap_drop(heap, frame[t].prog._ops)
    /\ doubleFree' = (doubleFree \/ IsBadFree(heap, frame[t].prog._ops))
    /\ pc' = [pc EXCEPT ![t] = "done"]
    /\ UNCHANGED <<variant, callers, ptrw, sock, hand, errno, lockedOnce>>

detach_filter_return(t) ==
    /\ pc[t] = "sysret"
    /\ frame[t].fn = "detach_filter"
    /\ frame' = [frame EXCEPT ![t].result = io_result(frame[t].ret, errno[t])]
    /\ pc' = [pc EXCEPT ![t] = "done"]
    /\ UNCHANGED <<variant, callers, ptrw, heap, sock, hand, errno, lockedOnce, doubleFree>>

lock_filter_return(t) ==
    /\ pc[t] = "sysret"
    /\ frame[t].fn = "lock_filter"
    /\ frame' = [frame EXCEPT ![t].result = io_result(frame[t].ret, errno[t])]
    /\ lockedOnce' = [lockedOnce EXCEPT ![frame[t].fd] =
                        @ \/ io_result(frame[t].ret, errno[t]).ok]
    /\ pc' = [pc EXCEPT ![t] = "done"]
    /\ UNCHANGED <<variant, callers, ptrw, heap, sock, hand, errno, doubleFree>>

(***************************************************************************)
(* The dummy variant: each function returns at once.                       *)
(***************************************************************************)
Requests(t) == FnRequests(CallerFds(t)) \cup TraitRequests(CallerSockets(t))

DummyReturn(t, r, res) ==
    /\ CanCall(t, r)
    /\ frame' = [frame EXCEPT ![t] = [NewFrame(t, r) EXCEPT !.result = res,
                                                            !.prog = NoProgVal,
                                                            !.owns = FALSE]]
    /\ hand' = [hand EXCEPT ![t] = IF r.fn = "attach_filter" THEN NoHand ELSE @]
    /\ lockedOnce' = [lockedOnce EXCEPT ![r.fd] = @ \/ (r.fn = "lock_filter" /\ res.ok)]
    /\ pc' = [pc EXCEPT ![t] = "done"]
    /\ UNCHANGED <<variant, callers, ptrw, heap, sock, errno, doubleFree>>

DummyAttach(t) ==
    /\ variant = "dummy"
    /\ \E r \in Requests(t) :
         /\ r.fn = "attach_filter"
         /\ DummyReturn(t, r, dummy_attach_filter(r.fd, hand[t].prog))

DummyDetach(t) ==
    /\ variant = "dummy"
    /\ \E r \in Requests(t) :
         /\ r.fn = "detach_filter"
         /\ DummyReturn(t, r, dummy_detach_filter(r.fd))

DummyLock(t) ==
    /\ variant = "dummy"
    /\ \E r \in Requests(t) :
         /\ r.fn = "lock_filter"
         /\ DummyReturn(t, r, dummy_lock_filter(r.fd))

Next ==
    \E t \in Threads :
        \/ ProgNew(t)
        \/ Bpfprog(t)
        \/ DummyBpfprog(t)
        \/ DropProg(t)
        \/ FnCall(t)
        \/ TraitCall(t)
        \/ attach_filter_setsockopt(t)
        \/ detach_filter_setsockopt(t)
        \/ lock_filter_setsockopt(t)
        \/ attach_filter_return(t)
        \/ detach_filter_return(t)
        \/ lock_filter_return(t)
        \/ DummyAttach(t)
        \/ DummyDetach(t)
        \/ DummyLock(t)

Spec == Init /\ [][Next]_vars

SpecMT == InitMT /\ [][Next]_vars


(***************************************************************************)
(* Properties.                                                             *)
(***************************************************************************)
InCall(t) == pc[t] \in {"entered", "sysret"}

\* thread t has finished a call of free function f
Finished(t, f) == pc[t] = "done" /\ frame[t].fn = f

\* C1: a Prog built by Prog::new, directly or through bpfprog! with any count
\* hint, has a length field equal to the number of operations supplied,
\* whatever that number is.
C1_LenIsCount ==
    \A t \in Threads :
        hand[t].kind = "linux" => hand[t].prog.len = OpsLen(hand[t].given)

\* C2: attach_filter calls setsockopt at SOL_SOCKET with SO_ATTACH_FILTER, and
\* the option value is exactly the kernel's filter-program record: the length
\* and the pointer at the record's offsets, and an option length equal to the
\* record's size, with no further bytes.
C2_OptvalIsSockFprog ==
    \A t \in Threads :
        (variant = "linux" /\ frame[t].fn = "attach_filter" /\ frame[t].nsys > 0) =>
            /\ frame[t].args.level = SOL_SOCKET
            /\ frame[t].args.optname = SO_ATTACH_FILTER
            /\ frame[t].args.optval.kind = "Prog"
            /\ ReprC_Offset(ProgFields(ptrw), 1) = ReprC_Offset(SockFprogFields(ptrw), 1)
            /\ ReprC_Offset(ProgFields(ptrw), 2) = ReprC_Offset(SockFprogFields(ptrw), 2)
            /\ frame[t].args.optlen = size_of_sock_fprog(ptrw)

\* C3: on the supporting platform, on an open socket that was never locked,
\* attaching a well-formed program returns Ok, and so does a detach that
\* follows it on the same descriptor.
C3_AttachThenDetachSucceed ==
    variant = "linux" =>
        \A t \in Threads :
            (pc[t] = "done" /\ frame[t].fd \in OpenFds /\ ~lockedOnce[frame[t].fd]
                /\ ~sock[frame[t].fd].locked) =>
                /\ (frame[t].fn = "attach_filter" /\ KernelAccepts(frame[t].given))
                       => frame[t].result.ok
                /\ (frame[t].fn = "detach_filter" /\ frame[t].afterAttach)
                       => frame[t].result.ok

\* what the irreversibility of lock asks of a state ...
LockedStaysLocked ==
    /\ \A t \in Threads :
           (pc[t] = "done" /\ frame[t].fn \in {"attach_filter", "detach_filter"}
               /\ frame[t].lockedAtEntry)
               => (~frame[t].result.ok /\ frame[t].result.code # "none")
    /\ \A d \in OpenFds : lockedOnce[d] => sock[d].locked

\* ... and of a step: the socket's filter and lock are left as they are
LockedStep ==
    /\ LockedStaysLocked'
    /\ \A d \in OpenFds : lockedOnce[d] => sock'[d] = sock[d]

\* C4, as stated: once lock_filter has returned Ok on a descriptor, every later
\* attach_filter and detach_filter on it returns an OS error, its filter never
\* changes again, and nothing unlocks it.
C4_LockIrreversible == [][LockedStep]_vars

\* C4, amended: the same, on the supporting platform.
C4_LockIrreversibleOnLinux == [][variant = "linux" => LockedStep]_vars

C4_Witness ==
    \E t \in Threads :
        /\ variant = "linux"
        /\ Finished(t, "detach_filter")
        /\ frame[t].lockedAtEntry
        /\ frame[t].result = Err("EPERM")

\* C5: on the supporting platform each of the three functions makes exactly one
\* setsockopt call, returns Ok exactly when that call returned 0, and otherwise
\* returns Err with the OS error of that call, for every Prog.
C5_OneCallOneResult ==
    variant = "linux" =>
        \A t \in Threads :
            /\ pc[t] = "entered" => frame[t].nsys = 0
            /\ pc[t] = "sysret" => frame[t].nsys = 1
            /\ pc[t] = "done" =>
                 /\ frame[t].nsys = 1
                 /\ frame[t].result.ok <=> frame[t].ret = 0
                 /\ frame[t].ret = 0 => frame[t].result = Ok
                 /\ frame[t].ret # 0 => frame[t].result = Err(frame[t].kerr)

C5_Witness ==
    \E t \in Threads :
        /\ variant = "linux"
        /\ Finished(t, "attach_filter")
        /\ frame[t].given = NoOps
        /\ frame[t].nsys = 1
        /\ frame[t].ret # 0
        /\ frame[t].result = Err(frame[t].kerr)

\* C6: in the dummy variant attach, detach and lock return Ok for every
\* descriptor, every Prog and after every earlier call; they make no system
\* call and change no state.
C6_DummyAlwaysOk ==
    variant = "dummy" =>
        /\ \A t \in Threads :
               /\ ~InCall(t)
               /\ pc[t] = "done" => (frame[t].result = Ok /\ frame[t].nsys = 0)
               /\ errno[t] = "none"
        /\ sock = SockInit
        /\ \A a \in Addrs : ~heap[a].live

C6_Witness ==
    \E t \in Threads :
        /\ variant = "dummy"
        /\ Finished(t, "attach_filter")
        /\ frame[t].fd = BadFd
        /\ frame[t].given = NoOps
        /\ frame[t].lockedAtEntry
        /\ frame[t].result = Ok

\* C7: every item a caller uses against the supporting variant, Prog::new
\* included, is offered with the same signature by the dummy variant.
C7_SameSurface ==
    \A t \in Threads :
        /\ hand[t].kind # "none" => hand[t].how \in Surface("dummy")
        /\ frame[t].fn # "none" => RequestItem(frame[t]) \in Surface("dummy")

\* Prog p, built from ops, points at the block it owns, and the block is
\* allocated and holds ops
OwnsBacking(p, ops) ==
    /\ p.filter = p._ops.addr
    /\ p._ops.n = OpsLen(ops)
    /\ IF p._ops.n = 0
       THEN p.filter = DANGLING
       ELSE /\ p.filter \in Addrs
            /\ heap[p.filter].live
            /\ heap[p.filter].ops = ops

\* the threads whose Prog (in hand, or inside attach_filter) owns block a
OwnersOf(a) ==
    {<<t, "hand">> : t \in {u \in Threads : hand[u].kind = "linux"
                                           /\ hand[u].prog._ops.n > 0
                                           /\ hand[u].prog._ops.addr = a}}
    \cup
    {<<t, "frame">> : t \in {u \in Threads : frame[u].owns
                                            /\ frame[u].prog._ops.n > 0
                                            /\ frame[u].prog._ops.addr = a}}

\* C8: a Prog's pointer designates the block the Prog owns; the block stays
\* allocated and unmodified from construction until attach_filter, which takes
\* the Prog by value, has returned; it is released exactly once, after the
\* system call.
C8_BackingStorage ==
    /\ ~doubleFree
    /\ \A t \in Threads :
           /\ hand[t].kind = "linux" => OwnsBacking(hand[t].prog, hand[t].given)
           /\ (variant = "linux" /\ frame[t].fn = "attach_filter") =>
                  /\ InCall(t) => (frame[t].owns
                                   /\ OwnsBacking(frame[t].prog, frame[t].given))
                  /\ pc[t] = "done" => ~frame[t].owns
    /\ \A a \in Addrs : heap[a].live <=> Cardinality(OwnersOf(a)) = 1

C8_Witness ==
    \E t \in Threads :
        /\ variant = "linux"
        /\ pc[t] = "sysret"
        /\ frame[t].fn = "attach_filter"
        /\ frame[t].prog._ops.n > 0
        /\ frame[t].ret # 0
        /\ heap[frame[t].prog.filter].live
        /\ heap[frame[t].prog.filter].ops = frame[t].given

\* thread t makes its setsockopt call in this step
SyscallStep(t) == pc[t] = "entered" /\ pc'[t] = "sysret"

\* the kernel's state with every descriptor but d as it was at the start
Isolated(d) == [e \in OpenFds |-> IF e = d THEN sock[e] ELSE SockInit[e]]

OnlyOwnDescriptor ==
    /\ \A d \in OpenFds :
           sock'[d] # sock[d] => \E t \in Threads : SyscallStep(t) /\ frame[t].fd = d
    /\ \A t \in Threads :
           SyscallStep(t) =>
               LET a == frame'[t].args
                   alone == KernelSetsockopt(Isolated(a.fd), heap, a, ptrw)
               IN /\ a.fd = frame[t].fd
                  /\ frame'[t].ret = alone.ret
                  /\ frame'[t].kerr = alone.err
                  /\ a.fd \in OpenFds => sock'[a.fd] = alone.sock[a.fd]
    /\ \A t \in Threads :
           frame'[t].via = "trait" =>
               /\ frame'[t].fn = frame'[t].item
               /\ frame'[t].fd = as_raw_fd(frame'[t].self)

\* C10: a call changes the filter and lock state of the descriptor passed to
\* it and of no other, and its outcome depends on no other descriptor's state,
\* so calls running concurrently on distinct descriptors do not affect each
\* other; a BpfFilterAttachable method runs the free function of its name on
\* self.as_raw_fd().
C10_OnlyOwnDescriptor == [][OnlyOwnDescriptor]_vars

C10_Witness ==
    /\ variant = "linux"
    /\ pc[1] = "sysret" /\ frame[1].fn = "lock_filter" /\ frame[1].fd = 3
    /\ pc[2] = "entered" /\ frame[2].via = "trait" /\ frame[2].fd = 4
    /\ sock[3].locked /\ ~sock[4].locked

====
